---- MODULE Spec2Model ----
(***************************************************************************)
(* Model of packages/dns-test/src/implementation.rs: the Implementation /  *)
(* Role / Config capability model, the dispatcher (format_config,           *)
(* conf_file_path, cmd_args, pidfile), Display, Default and the Repository  *)
(* constructor.                                                             *)
(*                                                                          *)
(* A behaviour is one thread of a test set-up: it constructs Repository     *)
(* values and consults the dispatcher.  Every step is one call; `last`      *)
(* records the call and its outcome.  A panic (assert!, unimplemented!)     *)
(* unwinds the thread: after it no further call is made.                    *)
(*                                                                          *)
(* Text is modelled as TLA+ strings where the code only passes it along,    *)
(* and as sequences of one-character strings where the code inspects it     *)
(* (the input of Repository).                                               *)
(***************************************************************************)
EXTENDS Integers, Sequences, FiniteSets, TLC

\* ---------------------------------------------------------------- bounds
\* longest Repository input that is tried
MaxLen == 3

\* characters a Repository input is made of: a letter, the scheme
\* delimiter, the path separator and a blank
Alphabet == {"a", ":", "/", " "}

\* paths that may exist on the local filesystem when the thread starts
CandidatePaths == {<<"/">>, <<"a">>, <<"/", "a">>, <<"a", ":">>}

\* origins (FQDN::as_str) and netmasks handed to Config
Origins == {"example.com.", "."}
Netmasks == {"0.0.0.0/0", "127.0.0.0/8"}

Inputs == UNION {[1..n -> Alphabet] : n \in 0..MaxLen}

\* ---------------------------------------------------------------- values
\* outcome of a call: a returned value or a panic carrying its message
Ok(v) == <<"Ok", v>>
Panic(msg) == <<"Panic", msg>>
IsOk(o) == o[1] = "Ok"
IsPanic(o) == o[1] = "Panic"
Value(o) == o[2]

\* enum Role
NameServerRole == "NameServer"
ResolverRole == "Resolver"
Role == {NameServerRole, ResolverRole}

\* enum Config<'a>
ConfigNameServer(origin) == [tag |-> "NameServer", origin |-> origin]
ConfigResolver(use_dnssec, netmask) ==
    [tag |-> "Resolver", use_dnssec |-> use_dnssec, netmask |-> netmask]
Config ==
    {ConfigNameServer(o) : o \in Origins}
    \cup {ConfigResolver(d, n) : d \in BOOLEAN, n \in Netmasks}

\* enum Implementation
Bind == <<"Bind">>
Hickory(repo) == <<"Hickory", repo>>
Unbound == <<"Unbound">>
Tag(self) == self[1]

\* struct Repository { inner }
RepositoryValue(input) == [inner |-> input]

\* minijinja::render!(include_str!(template), name => value, ...): the
\* rendered text is a function of the template and the named parameters
Render(template, params) ==
    Ok([template |-> template, params |-> params])

\* ---------------------------------------------------------------- Config, Role
role_mut_always_resolver(config) == ResolverRole

role(config) ==
    IF config.tag = "NameServer" THEN NameServerRole ELSE ResolverRole

is_resolver(r) == r = ResolverRole

is_bind(self) == Tag(self) = "Bind"

\* ---------------------------------------------------------------- dispatcher
\* message of the assert! in cmd_args (the source quotes NameServer in
\* backticks)
UnsupportedRoleMsg == "hickory acting in NameServer role is currently not supported"

format_config_mut_nsd_template(self, config) ==
    IF config.tag = "Resolver"
    THEN CASE Tag(self) = "Bind" ->
                Render("templates/named.resolver.conf.jinja",
                       [use_dnssec |-> config.use_dnssec, netmask |-> config.netmask])
           [] Tag(self) = "Hickory" ->
                Render("templates/hickory.resolver.toml.jinja",
                       [use_dnssec |-> config.use_dnssec])
           [] Tag(self) = "Unbound" ->
                Render("templates/unbound.conf.jinja",
                       [use_dnssec |-> config.use_dnssec, netmask |-> config.netmask])
    ELSE CASE Tag(self) = "Bind" ->
                Render("templates/named.name-server.conf.jinja",
                       [fqdn |-> config.origin])
           [] Tag(self) = "Unbound" ->
                Render("templates/unbound.conf.jinja",
                       [fqdn |-> config.origin])
           [] Tag(self) = "Hickory" -> Panic("not implemented")

format_config_mut_hickory_netmask(self, config) ==
    IF config.tag = "Resolver"
    THEN CASE Tag(self) = "Bind" ->
                Render("templates/named.resolver.conf.jinja",
                       [use_dnssec |-> config.use_dnssec, netmask |-> config.netmask])
           [] Tag(self) = "Hickory" ->
                Render("templates/hickory.resolver.toml.jinja",
                       [use_dnssec |-> config.use_dnssec, netmask |-> config.netmask])
           [] Tag(self) = "Unbound" ->
                Render("templates/unbound.conf.jinja",
                       [use_dnssec |-> config.use_dnssec, netmask |-> config.netmask])
    ELSE CASE Tag(self) = "Bind" ->
                Render("templates/named.name-server.conf.jinja",
                       [fqdn |-> config.origin])
           [] Tag(self) = "Unbound" ->
                Render("templates/nsd.conf.jinja",
                       [fqdn |-> config.origin])
           [] Tag(self) = "Hickory" -> Panic("not implemented")

format_config(self, config) ==
    IF config.tag = "Resolver"
    THEN CASE Tag(self) = "Bind" ->
                Render("templates/named.resolver.conf.jinja",
                       [use_dnssec |-> config.use_dnssec, netmask |-> config.netmask])
           [] Tag(self) = "Hickory" ->
                Render("templates/hickory.resolver.toml.jinja",
                       [use_dnssec |-> config.use_dnssec])
           [] Tag(self) = "Unbound" ->
                Render("templates/unbound.conf.jinja",
                       [use_dnssec |-> config.use_dnssec, netmask |-> config.netmask])
    ELSE CASE Tag(self) = "Bind" ->
                Render("templates/named.name-server.conf.jinja",
                       [fqdn |-> config.origin])
           [] Tag(self) = "Unbound" ->
                Render("templates/nsd.conf.jinja",
                       [fqdn |-> config.origin])
           [] Tag(self) = "Hickory" -> Panic("not implemented")

conf_file_path_mut_ignores_role(self, r) ==
    CASE Tag(self) = "Bind" -> Ok("/etc/bind/named.conf")
      [] Tag(self) = "Hickory" -> Ok("/etc/named.toml")
      [] Tag(self) = "Unbound" -> Ok("/etc/unbound/unbound.conf")

conf_file_path(self, r) ==
    CASE Tag(self) = "Bind" -> Ok("/etc/bind/named.conf")
      [] Tag(self) = "Hickory" -> Ok("/etc/named.toml")
      [] Tag(self) = "Unbound" ->
            IF r = NameServerRole
            THEN Ok("/etc/nsd/nsd.conf")
            ELSE Ok("/etc/unbound/unbound.conf")

cmd_args_mut_ignores_role(self, r) ==
    CASE Tag(self) = "Bind" -> Ok(<<"named", "-g", "-d5">>)
      [] Tag(self) = "Hickory" ->
            IF ~is_resolver(r)
            THEN Panic(UnsupportedRoleMsg)
            ELSE Ok(<<"hickory-dns", "-d">>)
      [] Tag(self) = "Unbound" -> Ok(<<"unbound", "-d">>)

cmd_args_mut_no_assert(self, r) ==
    CASE Tag(self) = "Bind" -> Ok(<<"named", "-g", "-d5">>)
      [] Tag(self) = "Hickory" -> Ok(<<"hickory-dns", "-d">>)
      [] Tag(self) = "Unbound" ->
            IF r = NameServerRole
            THEN Ok(<<"nsd", "-d">>)
            ELSE Ok(<<"unbound", "-d">>)

cmd_args(self, r) ==
    CASE Tag(self) = "Bind" -> Ok(<<"named", "-g", "-d5">>)
      [] Tag(self) = "Hickory" ->
            IF ~is_resolver(r)
            THEN Panic(UnsupportedRoleMsg)
            ELSE Ok(<<"hickory-dns", "-d">>)
      [] Tag(self) = "Unbound" ->
            IF r = NameServerRole
            THEN Ok(<<"nsd", "-d">>)
            ELSE Ok(<<"unbound", "-d">>)

pidfile_mut_hickory_resolver(self, r) ==
    CASE Tag(self) = "Bind" -> Ok("/tmp/named.pid")
      [] Tag(self) = "Hickory" ->
            IF is_resolver(r) THEN Ok("/tmp/hickory.pid") ELSE Panic("not implemented")
      [] Tag(self) = "Unbound" ->
            IF r = NameServerRole
            THEN Ok("/tmp/nsd.pid")
            ELSE Ok("/tmp/unbound.pid")

pidfile(self, r) ==
    CASE Tag(self) = "Bind" -> Ok("/tmp/named.pid")
      [] Tag(self) = "Hickory" -> Panic("not implemented")
      [] Tag(self) = "Unbound" ->
            IF r = NameServerRole
            THEN Ok("/tmp/nsd.pid")
            ELSE Ok("/tmp/unbound.pid")

\* impl fmt::Display for Implementation
fmt_mut_binary_name(self) ==
    CASE Tag(self) = "Bind" -> "bind"
      [] Tag(self) = "Hickory" -> "hickory-dns"
      [] Tag(self) = "Unbound" -> "unbound"

fmt(self) ==
    CASE Tag(self) = "Bind" -> "bind"
      [] Tag(self) = "Hickory" -> "hickory"
      [] Tag(self) = "Unbound" -> "unbound"

\* impl Default for Implementation
Default == Unbound

\* ---------------------------------------------------------------- Repository
IsAlpha(c) == c = "a"
IsSchemeChar(c) == c = "a"

RECURSIVE TrimStart(_)
TrimStart(s) ==
    IF s # <<>> /\ Head(s) = " " THEN TrimStart(Tail(s)) ELSE s

RECURSIVE TrimEnd(_)
TrimEnd(s) ==
    IF s # <<>> /\ s[Len(s)] = " "
    THEN TrimEnd(SubSeq(s, 1, Len(s) - 1))
    ELSE s

\* Url::parse(input).is_ok() with no base URL: blanks around the input are
\* dropped, then the input must start with a scheme (a letter, then letters,
\* digits, '+', '-' or '.') closed by ':'.  Without a scheme the input is a
\* relative reference, which fails for want of a base.  No scheme spelled
\* from Alphabet is a special one (http, https, ws, wss, ftp, file), and what
\* follows the ':' is either an opaque path, a path or an empty authority,
\* all of which parse.
UrlParseOk(input) ==
    LET t == TrimEnd(TrimStart(input)) IN
    \E i \in 2..Len(t) :
        /\ t[i] = ":"
        /\ IsAlpha(t[1])
        /\ \A j \in 2..(i - 1) : IsSchemeChar(t[j])

\* Path::new(input).exists() against the filesystem `disk`
PathExists(input, disk) == input \in disk

\* pub fn Repository(input)
Repository_mut_and(input, disk) ==
    IF PathExists(input, disk) /\ UrlParseOk(input)
    THEN Ok(RepositoryValue(input))
    ELSE Panic(<<input, " is not a valid repository">>)

Repository(input, disk) ==
    IF PathExists(input, disk) \/ UrlParseOk(input)
    THEN Ok(RepositoryValue(input))
    ELSE Panic(<<input, " is not a valid repository">>)

\* Repository::as_str
as_str(repo) == repo.inner

\* ---------------------------------------------------------------- state
VARIABLES
    fs,          \* the paths that exist on the local filesystem
    repository,  \* the Repository the thread holds: none, or the last one constructed
    last,        \* the last call: [op, self, arg, outcome]
    panicked     \* the thread has panicked

vars == <<fs, repository, last, panicked>>

NoCall == [op |-> "none", self |-> <<>>, arg |-> <<>>, outcome |-> Ok(<<>>)]

\* the Implementation values the thread can build
Implementations == {Bind, Unbound} \cup {Hickory(r) : r \in repository}

Init ==
    /\ fs \in SUBSET CandidatePaths
    /\ repository = {}
    /\ last = NoCall
    /\ panicked = FALSE

Call(op, self, arg, outcome) ==
    /\ ~panicked
    /\ last' = [op |-> op, self |-> self, arg |-> arg, outcome |-> outcome]
    /\ panicked' = IsPanic(outcome)

CallRepository ==
    \E input \in Inputs :
        LET o == Repository(input, fs) IN
        /\ Call("Repository", <<>>, input, o)
        /\ repository' = IF IsOk(o) THEN {Value(o)} ELSE repository
        /\ UNCHANGED fs

CallAsStr ==
    \E r \in repository :
        /\ Call("as_str", <<>>, r, Ok(as_str(r)))
        /\ UNCHANGED <<fs, repository>>

CallDefault ==
    /\ Call("default", <<>>, <<>>, Ok(Default))
    /\ UNCHANGED <<fs, repository>>

CallFmt ==
    \E self \in Implementations :
        /\ Call("fmt", self, <<>>, Ok(fmt(self)))
        /\ UNCHANGED <<fs, repository>>

CallIsBind ==
    \E self \in Implementations :
        /\ Call("is_bind", self, <<>>, Ok(is_bind(self)))
        /\ UNCHANGED <<fs, repository>>

CallRole ==
    \E config \in Config :
        /\ Call("role", <<>>, config, Ok(role(config)))
        /\ UNCHANGED <<fs, repository>>

CallIsResolver ==
    \E config \in Config :
        /\ Call("is_resolver", <<>>, config, Ok(is_resolver(role(config))))
        /\ UNCHANGED <<fs, repository>>

CallFormatConfig ==
    \E self \in Implementations, config \in Config :
        /\ Call("format_config", self, config, format_config(self, config))
        /\ UNCHANGED <<fs, repository>>

CallConfFilePath ==
    \E self \in Implementations, r \in Role :
        /\ Call("conf_file_path", self, r, conf_file_path(self, r))
        /\ UNCHANGED <<fs, repository>>

CallCmdArgs ==
    \E self \in Implementations, r \in Role :
        /\ Call("cmd_args", self, r, cmd_args(self, r))
        /\ UNCHANGED <<fs, repository>>

CallPidfile ==
    \E self \in Implementations, r \in Role :
        /\ Call("pidfile", self, r, pidfile(self, r))
        /\ UNCHANGED <<fs, repository>>

Next ==
    \/ CallRepository
    \/ CallAsStr
    \/ CallDefault
    \/ CallFmt
    \/ CallIsBind
    \/ CallRole
    \/ CallIsResolver
    \/ CallFormatConfig
    \/ CallConfFilePath
    \/ CallCmdArgs
    \/ CallPidfile

Spec == Init /\ [][Next]_vars

\* ---------------------------------------------------------------- claims
LastIs(op) == last.op = op
LastTag == Tag(last.self)

\* C1: cmd_args returns named -g -d5 for Bind in either role, hickory-dns -d
\* for Hickory as Resolver, nsd -d for Unbound as NameServer and unbound -d
\* for Unbound as Resolver; Hickory as NameServer panics with the
\* not-supported message, and it is the only pair that fails.
C1_CmdArgsTable ==
    LastIs("cmd_args") =>
        /\ (IsPanic(last.outcome) <=>
                (LastTag = "Hickory" /\ last.arg = NameServerRole))
        /\ IsPanic(last.outcome) => Value(last.outcome) = UnsupportedRoleMsg
        /\ IsOk(last.outcome) =>
            /\ LastTag = "Bind" => Value(last.outcome) = <<"named", "-g", "-d5">>
            /\ LastTag = "Hickory" => Value(last.outcome) = <<"hickory-dns", "-d">>
            /\ (LastTag = "Unbound" /\ last.arg = NameServerRole) =>
                    Value(last.outcome) = <<"nsd", "-d">>
            /\ (LastTag = "Unbound" /\ last.arg = ResolverRole) =>
                    Value(last.outcome) = <<"unbound", "-d">>

C1_Witness ==
    /\ LastIs("cmd_args")
    /\ LastTag = "Hickory"
    /\ last.arg = NameServerRole
    /\ panicked

\* C2: format_config fails exactly for Hickory with a NameServer config; in
\* the other five combinations it renders the template of (implementation,
\* config.role()), and a NameServer config passes its origin as the single
\* parameter fqdn.
C2_FormatConfigTemplates ==
    LastIs("format_config") =>
        /\ (IsPanic(last.outcome) <=>
                (LastTag = "Hickory" /\ last.arg.tag = "NameServer"))
        /\ IsOk(last.outcome) =>
            LET t == Value(last.outcome).template
                r == IF last.arg.tag = "NameServer" THEN NameServerRole ELSE ResolverRole
            IN
            /\ (LastTag = "Bind" /\ r = ResolverRole) =>
                    t = "templates/named.resolver.conf.jinja"
            /\ (LastTag = "Hickory" /\ r = ResolverRole) =>
                    t = "templates/hickory.resolver.toml.jinja"
            /\ (LastTag = "Unbound" /\ r = ResolverRole) =>
                    t = "templates/unbound.conf.jinja"
            /\ (LastTag = "Bind" /\ r = NameServerRole) =>
                    t = "templates/named.name-server.conf.jinja"
            /\ (LastTag = "Unbound" /\ r = NameServerRole) =>
                    t = "templates/nsd.conf.jinja"
            /\ r = NameServerRole =>
                    /\ DOMAIN Value(last.outcome).params = {"fqdn"}
                    /\ Value(last.outcome).params.fqdn = last.arg.origin

C2_Witness ==
    /\ LastIs("format_config")
    /\ LastTag = "Unbound"
    /\ last.arg.tag = "NameServer"
    /\ IsOk(last.outcome)

\* C3 as stated: for a Resolver config format_config passes both use_dnssec
\* and netmask to the resolver template of every implementation.
C3_Original ==
    (LastIs("format_config") /\ last.arg.tag = "Resolver") =>
        /\ IsOk(last.outcome)
        /\ DOMAIN Value(last.outcome).params = {"use_dnssec", "netmask"}
        /\ Value(last.outcome).params.use_dnssec = last.arg.use_dnssec
        /\ Value(last.outcome).params.netmask = last.arg.netmask

\* C3 amended: for a Resolver config format_config passes use_dnssec and
\* netmask to the resolver template of Bind and of Unbound, and use_dnssec
\* alone to the resolver template of Hickory, whose rendered output is
\* therefore the same for every netmask.
C3_ResolverParams ==
    (LastIs("format_config") /\ last.arg.tag = "Resolver") =>
        /\ IsOk(last.outcome)
        /\ Value(last.outcome).params.use_dnssec = last.arg.use_dnssec
        /\ LastTag \in {"Bind", "Unbound"} =>
            /\ DOMAIN Value(last.outcome).params = {"use_dnssec", "netmask"}
            /\ Value(last.outcome).params.netmask = last.arg.netmask
        /\ LastTag = "Hickory" =>
            /\ DOMAIN Value(last.outcome).params = {"use_dnssec"}
            /\ \A n \in Netmasks :
                format_config(last.self, ConfigResolver(last.arg.use_dnssec, n))
                    = last.outcome

C3_Witness ==
    /\ LastIs("format_config")
    /\ LastTag = "Hickory"
    /\ last.arg.tag = "Resolver"
    /\ IsOk(last.outcome)

\* C4: pidfile returns /tmp/named.pid for Bind in either role, /tmp/nsd.pid
\* for Unbound as NameServer and /tmp/unbound.pid for Unbound as Resolver;
\* for Hickory it panics in both roles.
C4_PidfileTable ==
    LastIs("pidfile") =>
        /\ (IsPanic(last.outcome) <=> LastTag = "Hickory")
        /\ IsOk(last.outcome) =>
            /\ LastTag = "Bind" => Value(last.outcome) = "/tmp/named.pid"
            /\ (LastTag = "Unbound" /\ last.arg = NameServerRole) =>
                    Value(last.outcome) = "/tmp/nsd.pid"
            /\ (LastTag = "Unbound" /\ last.arg = ResolverRole) =>
                    Value(last.outcome) = "/tmp/unbound.pid"

C4_Witness ==
    /\ LastIs("pidfile")
    /\ LastTag = "Hickory"
    /\ last.arg = ResolverRole
    /\ panicked

\* C5: conf_file_path never fails, for any of the six pairs, and returns
\* /etc/bind/named.conf for Bind, /etc/named.toml for Hickory,
\* /etc/nsd/nsd.conf for Unbound as NameServer and
\* /etc/unbound/unbound.conf for Unbound as Resolver.
C5_ConfFilePathTable ==
    LastIs("conf_file_path") =>
        /\ IsOk(last.outcome)
        /\ ~panicked
        /\ LastTag = "Bind" => Value(last.outcome) = "/etc/bind/named.conf"
        /\ LastTag = "Hickory" => Value(last.outcome) = "/etc/named.toml"
        /\ (LastTag = "Unbound" /\ last.arg = NameServerRole) =>
                Value(last.outcome) = "/etc/nsd/nsd.conf"
        /\ (LastTag = "Unbound" /\ last.arg = ResolverRole) =>
                Value(last.outcome) = "/etc/unbound/unbound.conf"

C5_Witness ==
    /\ LastIs("conf_file_path")
    /\ LastTag = "Hickory"
    /\ last.arg = NameServerRole
    /\ Value(last.outcome) = "/etc/named.toml"
    /\ ~panicked

\* C6: Repository(input) succeeds exactly when input names an existing
\* path or parses as a URL; on success as_str of the result is the input,
\* otherwise the call panics and produces no Repository.
C6_RepositoryValidation ==
    LastIs("Repository") =>
        /\ (IsOk(last.outcome) <=> (last.arg \in fs \/ UrlParseOk(last.arg)))
        /\ IsOk(last.outcome) =>
            /\ as_str(Value(last.outcome)) = last.arg
            /\ repository = {Value(last.outcome)}
        /\ ~IsOk(last.outcome) =>
            /\ panicked
            /\ Value(last.outcome) = <<last.arg, " is not a valid repository">>
            /\ RepositoryValue(last.arg) \notin repository

C6_Witness ==
    /\ LastIs("Repository")
    /\ IsOk(last.outcome)
    /\ last.arg \in fs
    /\ ~UrlParseOk(last.arg)
    /\ as_str(Value(last.outcome)) = <<"/", "a">>

\* C7: role() depends on the tag of the Config alone, NameServer for every
\* Config::NameServer and Resolver for every Config::Resolver, and
\* is_resolver() of it is true exactly for Config::Resolver.
C7_RoleByTag ==
    /\ LastIs("role") =>
        /\ last.arg.tag = "NameServer" => last.outcome = Ok(NameServerRole)
        /\ last.arg.tag = "Resolver" => last.outcome = Ok(ResolverRole)
    /\ LastIs("is_resolver") =>
        last.outcome = Ok(last.arg.tag = "Resolver")

C7_Witness ==
    /\ LastIs("is_resolver")
    /\ last.arg.tag = "NameServer"
    /\ last.outcome = Ok(FALSE)

\* C8: Implementation::default() is Unbound, and Display writes bind for
\* Bind, hickory for Hickory whatever its Repository, unbound for Unbound.
C8_DefaultAndDisplay ==
    /\ LastIs("default") => Tag(Value(last.outcome)) = "Unbound"
    /\ LastIs("fmt") =>
        /\ LastTag = "Bind" => Value(last.outcome) = "bind"
        /\ LastTag = "Hickory" => Value(last.outcome) = "hickory"
        /\ LastTag = "Unbound" => Value(last.outcome) = "unbound"

C8_Witness ==
    /\ LastIs("fmt")
    /\ LastTag = "Hickory"
    /\ Value(last.outcome) = "hickory"

\* C10: for every implementation the thread can build and every config,
\* format_config fails exactly when cmd_args fails for the config's role,
\* and wherever pidfile returns a path cmd_args and format_config succeed.
C10_ConsistentGaps ==
    /\ \A self \in Implementations, config \in Config :
            IsPanic(format_config(self, config))
                <=> IsPanic(cmd_args(self, role(config)))
    /\ \A self \in Implementations, r \in Role :
            IsOk(pidfile(self, r)) =>
                /\ IsOk(cmd_args(self, r))
                /\ \A config \in Config :
                        role(config) = r => IsOk(format_config(self, config))

C10_Witness ==
    /\ LastIs("format_config")
    /\ LastTag = "Hickory"
    /\ last.arg.tag = "NameServer"
    /\ IsPanic(last.outcome)
    /\ IsPanic(cmd_args(last.self, role(last.arg)))

====
